---- MODULE Spec2Model ----
(***************************************************************************)
(* ASHA (Asynchronous Successive Halving) custom SearchMethod,             *)
(* examples/custom_search_method/asha_search_method/asha.py.               *)
(*                                                                         *)
(* The state is ASHASearchMethodState (the rung ladder, the trial          *)
(* registry, the counters and the two id sets) together with the           *)
(* SearchRunner's view of the experiment: which operations have been       *)
(* emitted and which events are still owed for them.  Every handler of     *)
(* ASHASearchMethod is one action.                                         *)
(***************************************************************************)
EXTENDS Integers, Sequences, FiniteSets

\* ------------------------------------------------------------------ bounds
MaxTrials == 2
MaxRungs == 2
MaxDivisor == 2
MaxConcurrent == 1
MaxMetric == 2
MaxInvalid == 1
MaxInserts == 4
MaxCounter == 2

\* sys.float_info.max, the sentinel metric of an ERRORED / USER_CANCELLED trial
FloatMax == 1000

MaxLengths == {8}
Metrics == 1..MaxMetric
TrialIds == 1..(MaxTrials + MaxInvalid)
Reasons == {"ERRORED", "USER_CANCELLED", "INVALID_HP", "UNKNOWN"}

VARIABLES
    max_length, max_trials, num_rungs, divisor, max_concurrent_trials,
    rungs, trial_rungs,
    pending_trials, completed_trials, invalid_trials,
    early_exit_trials, closed_trials,
    started, to_create, requested, to_close, closed_delivered, shutdown,
    event, ops, close_count, exit_kind, exit_rung, progress_result

config == <<max_length, max_trials, num_rungs, divisor, max_concurrent_trials>>
search_state == <<rungs, trial_rungs, pending_trials, completed_trials,
                  invalid_trials, early_exit_trials, closed_trials>>
runner == <<started, to_create, requested, to_close, closed_delivered, shutdown>>
history == <<event, ops, close_count, exit_kind, exit_rung, progress_result>>
vars == <<config, search_state, runner, history>>

\* set at construction (line 392) and never changed
is_smaller_better == TRUE

\* ------------------------------------------------------------ operations
Create(id) == [op |-> "Create", request_id |-> id, length |-> 0]
ValidateAfter(id, len) == [op |-> "ValidateAfter", request_id |-> id, length |-> len]
Close(id) == [op |-> "Close", request_id |-> id, length |-> 0]
Shutdown == [op |-> "Shutdown", request_id |-> 0, length |-> 0]

TrialMetric(id, m, p) == [request_id |-> id, metric |-> m, promoted |-> p]
Rung(units, i) == [units_needed |-> units, idx |-> i, metrics |-> <<>>,
                   outstanding_trials |-> 0]

Max(a, b) == IF a >= b THEN a ELSE b
Min(a, b) == IF a <= b THEN a ELSE b

RECURSIVE Pow(_, _)
Pow(b, e) == IF e = 0 THEN 1 ELSE b * Pow(b, e - 1)

\* ----------------------------------------------------------- rung ladder
\* the ladder with each rung's own increment instead of the running sum
UnitsNeededNotCumulative(len, n, d, i) ==
    Max(len \div Pow(d, n - i - 1), 1)

\* the ladder without the floor of 1 on each increment (line 411)
RECURSIVE UnitsNeededNoFloor(_, _, _, _)
UnitsNeededNoFloor(len, n, d, i) ==
    LET downsampling_rate == Pow(d, n - i - 1)
        inc == len \div downsampling_rate
    IN IF i = 0 THEN inc ELSE UnitsNeededNoFloor(len, n, d, i - 1) + inc

RECURSIVE UnitsNeeded(_, _, _, _)
UnitsNeeded(len, n, d, i) ==
    LET downsampling_rate == Pow(d, n - i - 1)
        inc == Max(len \div downsampling_rate, 1)
    IN IF i = 0 THEN inc ELSE UnitsNeeded(len, n, d, i - 1) + inc

_init_rungs(len, n, d) == [i \in 0..(n - 1) |-> Rung(UnitsNeeded(len, n, d, i), i)]

\* the search of lines 454-463 with < for <=: an equal value goes before
RECURSIVE BinarySearchLeft(_, _, _, _)
BinarySearchLeft(metrics, metric, i, j) ==
    IF i < j
    THEN LET mid == (i + j) \div 2
         IN IF metrics[mid + 1].metric < metric
            THEN BinarySearchLeft(metrics, metric, mid + 1, j)
            ELSE BinarySearchLeft(metrics, metric, i, mid)
    ELSE i

\* ------------------------------------------------------ promotion engine
RECURSIVE BinarySearch(_, _, _, _)
BinarySearch(metrics, metric, i, j) ==
    IF i < j
    THEN LET mid == (i + j) \div 2
         IN IF metrics[mid + 1].metric <= metric
            THEN BinarySearch(metrics, metric, mid + 1, j)
            ELSE BinarySearch(metrics, metric, i, mid)
    ELSE i

_search_metric_index(metrics, metric) == BinarySearch(metrics, metric, 0, Len(metrics))

InsertAt(s, index, e) == SubSeq(s, 1, index) \o <<e>> \o SubSeq(s, index + 1, Len(s))

\* promotions_async without the retroactive promotion of lines 447-449
promotions_async_no_retro(rung, request_id, metric, d) ==
    LET num_promote == (Len(rung.metrics) + 1) \div d
        index == _search_metric_index(rung.metrics, metric)
        promote_now == index < num_promote
        inserted == InsertAt(rung.metrics, index,
                             TrialMetric(request_id, metric, promote_now))
    IN [rung |-> [rung EXCEPT !.metrics = inserted],
        promoted |-> IF promote_now THEN <<request_id>> ELSE <<>>]

promotions_async(rung, request_id, metric, d) ==
    LET old_num_promote == Len(rung.metrics) \div d
        num_promote == (Len(rung.metrics) + 1) \div d
        index == _search_metric_index(rung.metrics, metric)
        promote_now == index < num_promote
        inserted == InsertAt(rung.metrics, index,
                             TrialMetric(request_id, metric, promote_now))
    IN IF promote_now
       THEN [rung |-> [rung EXCEPT !.metrics = inserted],
             promoted |-> <<request_id>>]
       ELSE IF num_promote # old_num_promote
               /\ ~inserted[old_num_promote + 1].promoted
            THEN [rung |-> [rung EXCEPT !.metrics =
                               [inserted EXCEPT ![old_num_promote + 1].promoted = TRUE]],
                  promoted |-> <<inserted[old_num_promote + 1].request_id>>]
            ELSE [rung |-> [rung EXCEPT !.metrics = inserted],
                  promoted |-> <<>>]

\* ---------------------------------------------- promotion/decision procedure
NewId(tr) == Cardinality(DOMAIN tr) + 1

Register(tr, id) == [t \in (DOMAIN tr) \cup {id} |-> IF t = id THEN 0 ELSE tr[t]]

\* the inner loop of _get_close_rungs_ops without the promoted test of line 360
RECURSIVE CloseRungMetricsPromotedToo(_, _, _)
CloseRungMetricsPromotedToo(s, r, k) ==
    IF k > Len(s.rungs[r].metrics) THEN s
    ELSE LET tm == s.rungs[r].metrics[k]
         IN IF /\ tm.request_id \notin s.closed_trials
               /\ tm.request_id \notin s.early_exit_trials
            THEN CloseRungMetricsPromotedToo(
                    [s EXCEPT !.ops = Append(@, Close(tm.request_id)),
                              !.closed_trials = @ \cup {tm.request_id}], r, k + 1)
            ELSE CloseRungMetricsPromotedToo(s, r, k + 1)

\* the inner loop of _get_close_rungs_ops over one rung's metrics, from entry k
RECURSIVE CloseRungMetrics(_, _, _)
CloseRungMetrics(s, r, k) ==
    IF k > Len(s.rungs[r].metrics) THEN s
    ELSE LET tm == s.rungs[r].metrics[k]
         IN IF ~tm.promoted
               /\ tm.request_id \notin s.closed_trials
               /\ tm.request_id \notin s.early_exit_trials
            THEN CloseRungMetrics(
                    [s EXCEPT !.ops = Append(@, Close(tm.request_id)),
                              !.closed_trials = @ \cup {tm.request_id}], r, k + 1)
            ELSE CloseRungMetrics(s, r, k + 1)

RECURSIVE _get_close_rungs_ops(_, _)
_get_close_rungs_ops(s, r) ==
    IF r > num_rungs - 1 THEN s
    ELSE IF s.rungs[r].outstanding_trials > 0 THEN s
    ELSE _get_close_rungs_ops(CloseRungMetrics(s, r, 1), r + 1)

\* the test of line 329 off by one
NeedsNewTrialOffByOne(s, added_train_workload) ==
    LET all_trials == Cardinality(DOMAIN s.trial_rungs) - s.invalid_trials
    IN ~added_train_workload /\ all_trials <= max_trials

\* the test of line 329 without added_train_workload
NeedsNewTrialAlways(s, added_train_workload) ==
    LET all_trials == Cardinality(DOMAIN s.trial_rungs) - s.invalid_trials
    IN all_trials < max_trials

\* lines 328-329: a fresh trial is started when no training was added
NeedsNewTrial(s, added_train_workload) ==
    LET all_trials == Cardinality(DOMAIN s.trial_rungs) - s.invalid_trials
    IN ~added_train_workload /\ all_trials < max_trials

\* lines 328-350 without pending_trials += 1 for the fresh trial (line 344)
_promote_async_tail_uncounted(s, added_train_workload) ==
    LET id == NewId(s.trial_rungs)
        s1 == IF NeedsNewTrial(s, added_train_workload)
              THEN [s EXCEPT !.ops = @ \o <<Create(id),
                                            ValidateAfter(id, s.rungs[0].units_needed)>>,
                             !.trial_rungs = Register(@, id)]
              ELSE s
    IN IF Len(s1.rungs[0].metrics) = max_trials
       THEN _get_close_rungs_ops(s1, 0)
       ELSE s1

\* lines 328-350 of _promote_async: replacement trial and shutdown sweep
_promote_async_tail(s, added_train_workload) ==
    LET id == NewId(s.trial_rungs)
        s1 == IF NeedsNewTrial(s, added_train_workload)
              THEN [s EXCEPT !.pending_trials = @ + 1,
                             !.ops = @ \o <<Create(id),
                                            ValidateAfter(id, s.rungs[0].units_needed)>>,
                             !.trial_rungs = Register(@, id)]
              ELSE s
    IN IF Len(s1.rungs[0].metrics) = max_trials
       THEN _get_close_rungs_ops(s1, 0)
       ELSE s1

\* line 319 without the early-exit test
TrainsFurtherAlways(s, promoted_request_id) == TRUE

\* line 319: a promoted trial is trained further unless it has exited early
TrainsFurther(s, promoted_request_id) ==
    promoted_request_id \notin s.early_exit_trials

\* line 307 without the early-exit test
ClosesAtFinalRungAlways(s, request_id) == TRUE

\* line 307: a trial finishing the final rung is closed unless it exited early
ClosesAtFinalRung(s, request_id) ==
    request_id \notin s.early_exit_trials

\* line 317 moving the promoted trial straight to the final rung
PromotedRungTop(rung_idx) == num_rungs - 1

\* line 317: the rung a trial promoted out of rung_idx is registered at
PromotedRung(rung_idx) == rung_idx + 1

\* lines 321-322: the further training requested of a trial promoted out of
\* rs[rung_idx]
PromotionUnits(rs, rung_idx) ==
    Max(rs[rung_idx + 1].units_needed - rs[rung_idx].units_needed, 1)

\* s.calls lists the rung index of every invocation, nested ones included
RECURSIVE _promote_async(_, _, _)
_promote_async(s, request_id, metric) ==
    LET rung_idx == s.trial_rungs[request_id]
        s1 == [s EXCEPT !.rungs[rung_idx].outstanding_trials = @ - 1, !.ops = <<>>,
                        !.calls = Append(@, rung_idx)]
    IN IF rung_idx = num_rungs - 1
       THEN LET s2 == [s1 EXCEPT !.rungs[rung_idx].metrics =
                                    Append(@, TrialMetric(request_id, metric, FALSE))]
                s3 == IF ClosesAtFinalRung(s2, request_id)
                      THEN [s2 EXCEPT !.ops = Append(@, Close(request_id)),
                                      !.closed_trials = @ \cup {request_id}]
                      ELSE s2
            IN _promote_async_tail(s3, FALSE)
       ELSE LET pr == promotions_async(s1.rungs[rung_idx], request_id, metric, divisor)
                s2 == [s1 EXCEPT !.rungs[rung_idx] = pr.rung]
            IN IF pr.promoted = <<>>
               THEN _promote_async_tail(s2, FALSE)
               ELSE LET promoted_request_id == pr.promoted[1]
                        s3 == [s2 EXCEPT !.trial_rungs[promoted_request_id] =
                                             PromotedRung(rung_idx),
                                         !.rungs[rung_idx + 1].outstanding_trials = @ + 1]
                        units_needed == PromotionUnits(s3.rungs, rung_idx)
                    IN IF TrainsFurther(s3, promoted_request_id)
                       THEN _promote_async_tail(
                               [s3 EXCEPT !.ops = Append(@, ValidateAfter(promoted_request_id,
                                                                         units_needed)),
                                          !.pending_trials = @ + 1], TRUE)
                       ELSE _promote_async(s3, promoted_request_id, FloatMax)

\* the part of ASHASearchMethodState that _promote_async reads and writes
Mutable == [rungs |-> rungs, trial_rungs |-> trial_rungs,
            pending_trials |-> pending_trials,
            invalid_trials |-> invalid_trials,
            early_exit_trials |-> early_exit_trials,
            closed_trials |-> closed_trials, ops |-> <<>>, calls |-> <<>>]

\* lines 288-293 without the cap by max_trials
_get_max_concurrent_trials_uncapped ==
    IF max_concurrent_trials > 0
    THEN Min(max_concurrent_trials, max_trials)
    ELSE Max(1, Pow(divisor, num_rungs - 1))

_get_max_concurrent_trials ==
    IF max_concurrent_trials > 0
    THEN Min(max_concurrent_trials, max_trials)
    ELSE Max(1, Min(Pow(divisor, num_rungs - 1), max_trials))

\* -------------------------------------------------------- runner bookkeeping
OpIds(o, kind) == {o[k].request_id : k \in {j \in 1..Len(o) : o[j].op = kind}}
OpCount(o, kind, id) == Cardinality({k \in 1..Len(o) : o[k].op = kind /\ o[k].request_id = id})
HasOp(o, kind) == \E k \in 1..Len(o) : o[k].op = kind

\* The runner's queues after a handler returned the list o: one TrialCreated is
\* owed per Create, one result or early exit per ValidateAfter, one TrialClosed
\* per trial that was closed or exited early.  answered is the set of trials
\* whose validation request the event consumed, exited the set of trials whose
\* early exit it reported.
Deliver(o, answered, exited) ==
    /\ to_create' = to_create \cup OpIds(o, "Create")
    /\ requested' = [t \in TrialIds |->
                        requested[t] + OpCount(o, "ValidateAfter", t)
                        - (IF t \in answered THEN 1 ELSE 0)]
    /\ to_close' = to_close \cup ((OpIds(o, "Close") \cup exited) \ closed_delivered)
    /\ close_count' = [t \in TrialIds |-> close_count[t] + OpCount(o, "Close", t)]
    /\ ops' = o

NoEvent == [name |-> "none", request_id |-> 0, reason |-> "none", metric |-> 0,
            calls |-> <<>>]
NoProgress == [status |-> "none", num |-> 0, den |-> 1]

\* ------------------------------------------------------------------ Init
Init ==
    /\ max_length \in MaxLengths
    /\ max_trials \in 1..MaxTrials
    /\ num_rungs \in 1..MaxRungs
    /\ divisor \in 1..MaxDivisor
    /\ max_concurrent_trials \in 0..MaxConcurrent
    /\ rungs = _init_rungs(max_length, num_rungs, divisor)
    /\ trial_rungs = <<>>
    /\ pending_trials = 0
    /\ completed_trials = 0
    /\ invalid_trials = 0
    /\ early_exit_trials = {}
    /\ closed_trials = {}
    /\ started = FALSE
    /\ to_create = {}
    /\ requested = [t \in TrialIds |-> 0]
    /\ to_close = {}
    /\ closed_delivered = {}
    /\ shutdown = FALSE
    /\ event = NoEvent
    /\ ops = <<>>
    /\ close_count = [t \in TrialIds |-> 0]
    /\ exit_kind = [t \in TrialIds |-> "none"]
    /\ exit_rung = [t \in TrialIds |-> 0]
    /\ progress_result = NoProgress

\* --------------------------------------------------------------- handlers
RECURSIVE InitialPairs(_, _)
InitialPairs(first, n) ==
    IF n = 0 THEN <<>>
    ELSE <<Create(first), ValidateAfter(first, rungs[0].units_needed)>>
         \o InitialPairs(first + 1, n - 1)

initial_operations ==
    /\ ~started
    /\ LET N == _get_max_concurrent_trials
       IN /\ trial_rungs' = [t \in 1..N |-> 0]
          /\ pending_trials' = pending_trials + N
          /\ Deliver(InitialPairs(1, N), {}, {})
    /\ started' = TRUE
    /\ event' = [NoEvent EXCEPT !.name = "initial_operations"]
    /\ progress_result' = NoProgress
    /\ UNCHANGED <<config, rungs, completed_trials, invalid_trials,
                   early_exit_trials, closed_trials, closed_delivered, shutdown,
                   exit_kind, exit_rung>>

on_trial_created(request_id) ==
    /\ started /\ ~shutdown
    /\ request_id \in to_create
    /\ rungs' = [rungs EXCEPT ![0].outstanding_trials = @ + 1]
    /\ trial_rungs' = Register(trial_rungs, request_id)
    /\ to_create' = to_create \ {request_id}
    /\ ops' = <<>>
    /\ event' = [NoEvent EXCEPT !.name = "on_trial_created", !.request_id = request_id]
    /\ progress_result' = NoProgress
    /\ UNCHANGED <<config, pending_trials, completed_trials, invalid_trials,
                   early_exit_trials, closed_trials, started, requested, to_close,
                   closed_delivered, shutdown, close_count, exit_kind, exit_rung>>

\* a result or an early exit is delivered for a trial that has been created
\* and has a validation request outstanding
Answerable(request_id) ==
    /\ started /\ ~shutdown
    /\ request_id \in DOMAIN trial_rungs
    /\ request_id \notin to_create
    /\ requested[request_id] > 0

on_validation_completed(request_id, metric) ==
    /\ Answerable(request_id)
    /\ LET s == _promote_async([Mutable EXCEPT !.pending_trials = @ - 1],
                               request_id,
                               IF is_smaller_better THEN metric ELSE -metric)
       IN /\ rungs' = s.rungs
          /\ trial_rungs' = s.trial_rungs
          /\ pending_trials' = s.pending_trials
          /\ early_exit_trials' = s.early_exit_trials
          /\ closed_trials' = s.closed_trials
          /\ invalid_trials' = s.invalid_trials
          /\ Deliver(s.ops, {request_id}, {})
          /\ event' = [NoEvent EXCEPT !.name = "on_validation_completed",
                                      !.request_id = request_id, !.metric = metric,
                                      !.calls = s.calls]
    /\ progress_result' = NoProgress
    /\ UNCHANGED <<config, completed_trials, started,
                   closed_delivered, shutdown, exit_kind, exit_rung>>

\* the test of line 150 as completed_trials >= max_trials
ClosedOpsAtLeast(pending, completed) ==
    IF pending = 0 /\ completed >= max_trials THEN <<Shutdown>> ELSE <<>>

\* lines 148-154: the operations on_trial_closed returns
ClosedOps(pending, completed) ==
    IF pending = 0 /\ completed = max_trials THEN <<Shutdown>> ELSE <<>>

on_trial_closed(request_id) ==
    /\ started /\ ~shutdown
    /\ request_id \in to_close
    /\ completed_trials' = completed_trials + 1
    /\ closed_trials' = closed_trials \cup {request_id}
    /\ ops' = ClosedOps(pending_trials, completed_trials')
    /\ shutdown' = HasOp(ops', "Shutdown")
    /\ to_close' = to_close \ {request_id}
    /\ closed_delivered' = closed_delivered \cup {request_id}
    /\ event' = [NoEvent EXCEPT !.name = "on_trial_closed", !.request_id = request_id]
    /\ progress_result' = NoProgress
    /\ UNCHANGED <<config, rungs, trial_rungs, pending_trials, invalid_trials,
                   early_exit_trials, started, to_create, requested,
                   close_count, exit_kind, exit_rung>>

\* the INVALID_HP branch purging only the trial's current rung
InvalidHpTopRungOnly(s, request_id) ==
    LET highest_rung_index == s.trial_rungs[request_id]
        id == NewId(s.trial_rungs)
    IN [s EXCEPT
          !.early_exit_trials = @ \cup {request_id},
          !.closed_trials = @ \cup {request_id},
          !.invalid_trials = @ + 1,
          !.rungs[highest_rung_index] =
              [@ EXCEPT !.outstanding_trials = @ - 1,
                        !.metrics = SelectSeq(@, LAMBDA x : x.request_id # request_id)],
          !.ops = <<Close(request_id), Create(id),
                    ValidateAfter(id, s.rungs[0].units_needed)>>,
          !.trial_rungs = Register(@, id),
          !.pending_trials = @ + 1]

\* the INVALID_HP branch decrementing rung 0's outstanding_trials instead of
\* the trial's current rung's
InvalidHpRungZero(s, request_id) ==
    LET highest_rung_index == s.trial_rungs[request_id]
        id == NewId(s.trial_rungs)
    IN [s EXCEPT
          !.early_exit_trials = @ \cup {request_id},
          !.closed_trials = @ \cup {request_id},
          !.invalid_trials = @ + 1,
          !.rungs = [r \in DOMAIN s.rungs |->
                       LET rung == IF r = 0
                                   THEN [s.rungs[r] EXCEPT !.outstanding_trials = @ - 1]
                                   ELSE s.rungs[r]
                       IN IF r <= highest_rung_index
                          THEN [rung EXCEPT !.metrics =
                                   SelectSeq(@, LAMBDA x : x.request_id # request_id)]
                          ELSE rung],
          !.ops = <<Close(request_id), Create(id),
                    ValidateAfter(id, s.rungs[0].units_needed)>>,
          !.trial_rungs = Register(@, id),
          !.pending_trials = @ + 1]

\* lines 181-212: the INVALID_HP branch, entered after pending_trials -= 1
InvalidHp(s, request_id) ==
    LET highest_rung_index == s.trial_rungs[request_id]
        id == NewId(s.trial_rungs)
    IN [s EXCEPT
          !.early_exit_trials = @ \cup {request_id},
          !.closed_trials = @ \cup {request_id},
          !.invalid_trials = @ + 1,
          !.rungs = [r \in DOMAIN s.rungs |->
                       LET rung == IF r = highest_rung_index
                                   THEN [s.rungs[r] EXCEPT !.outstanding_trials = @ - 1]
                                   ELSE s.rungs[r]
                       IN IF r <= highest_rung_index
                          THEN [rung EXCEPT !.metrics =
                                   SelectSeq(@, LAMBDA x : x.request_id # request_id)]
                          ELSE rung],
          !.ops = <<Close(request_id), Create(id),
                    ValidateAfter(id, s.rungs[0].units_needed)>>,
          !.trial_rungs = Register(@, id),
          !.pending_trials = @ + 1]

ExitedEarly(s, request_id, exited_reason) ==
    IF exited_reason = "INVALID_HP"
    THEN InvalidHp(s, request_id)
    ELSE _promote_async([s EXCEPT !.early_exit_trials = @ \cup {request_id},
                                !.closed_trials = @ \cup {request_id}],
                      request_id, FloatMax)

on_trial_exited_early(request_id, exited_reason) ==
    /\ Answerable(request_id)
    /\ exited_reason = "INVALID_HP" => invalid_trials < MaxInvalid
    /\ LET s == ExitedEarly([Mutable EXCEPT !.pending_trials = @ - 1],
                            request_id, exited_reason)
       IN /\ rungs' = s.rungs
          /\ trial_rungs' = s.trial_rungs
          /\ pending_trials' = s.pending_trials
          /\ early_exit_trials' = s.early_exit_trials
          /\ closed_trials' = s.closed_trials
          /\ invalid_trials' = s.invalid_trials
          /\ Deliver(s.ops, {request_id}, {request_id})
          /\ event' = [NoEvent EXCEPT !.name = "on_trial_exited_early",
                                      !.request_id = request_id,
                                      !.reason = exited_reason, !.calls = s.calls]
    /\ exit_kind' = [exit_kind EXCEPT ![request_id] =
                        IF exited_reason = "INVALID_HP" THEN "invalid" ELSE "sentinel"]
    /\ exit_rung' = [exit_rung EXCEPT ![request_id] = trial_rungs[request_id]]
    /\ progress_result' = NoProgress
    /\ UNCHANGED <<config, completed_trials, started, closed_delivered, shutdown>>

\* the test of line 228 with <= for the second <
ProgressValueAtLeast ==
    IF 0 < max_concurrent_trials /\ max_concurrent_trials <= pending_trials
    THEN [status |-> "error", num |-> 0, den |-> 1]
    ELSE [status |-> "ok", num |-> 5 * Len(rungs[0].metrics), den |-> 6 * max_trials]

\* line 235 counting every closed trial, the invalid ones included
ProgressValueCountsInvalid ==
    LET all_trials == Len(rungs[0].metrics)
        num_valid_trials == completed_trials
    IN IF 0 < max_concurrent_trials /\ max_concurrent_trials < pending_trials
       THEN [status |-> "error", num |-> 0, den |-> 1]
       ELSE [status |-> "ok",
             num |-> IF all_trials = max_trials
                     THEN Max(6 * num_valid_trials, 5 * all_trials)
                     ELSE 5 * all_trials,
             den |-> 6 * max_trials]

\* progress as an exact fraction num/den: all_trials / (1.2 * max_trials) is
\* 5 * all_trials / (6 * max_trials)
ProgressValue ==
    LET all_trials == Len(rungs[0].metrics)
        num_valid_trials == completed_trials - invalid_trials
    IN IF 0 < max_concurrent_trials /\ max_concurrent_trials < pending_trials
       THEN [status |-> "error", num |-> 0, den |-> 1]
       ELSE [status |-> "ok",
             num |-> IF all_trials = max_trials
                     THEN Max(6 * num_valid_trials, 5 * all_trials)
                     ELSE 5 * all_trials,
             den |-> 6 * max_trials]

progress ==
    /\ progress_result' = ProgressValue
    /\ event' = [NoEvent EXCEPT !.name = "progress"]
    /\ ops' = <<>>
    /\ UNCHANGED <<config, search_state, runner, close_count, exit_kind, exit_rung>>

Next ==
    \/ initial_operations
    \/ \E t \in TrialIds : on_trial_created(t)
    \/ \E t \in TrialIds, m \in Metrics : on_validation_completed(t, m)
    \/ \E t \in TrialIds : on_trial_closed(t)
    \/ \E t \in TrialIds, r \in Reasons : on_trial_exited_early(t, r)
    \/ started /\ ~shutdown /\ progress

Spec == Init /\ [][Next]_vars

\* ---------------------------------------------- the promotion engine alone
\* Rung.promotions_async called directly on rung 0 of a fresh two-rung ladder,
\* with any metric (the sentinel included) in any order.
InitRung ==
    /\ Init
    /\ num_rungs = 2
    /\ max_trials = 1
    /\ max_concurrent_trials = 0

PromotionsAsyncCall(metric) ==
    /\ Len(rungs[0].metrics) < MaxInserts
    /\ LET request_id == Len(rungs[0].metrics) + 1
           pr == promotions_async(rungs[0], request_id, metric, divisor)
       IN rungs' = [rungs EXCEPT ![0] = pr.rung]
    /\ event' = [NoEvent EXCEPT !.name = "promotions_async",
                                !.request_id = Len(rungs[0].metrics) + 1,
                                !.metric = metric]
    /\ UNCHANGED <<config, trial_rungs, pending_trials, completed_trials,
                   invalid_trials, early_exit_trials, closed_trials, runner,
                   ops, close_count, exit_kind, exit_rung, progress_result>>

NextRung == \E m \in Metrics \cup {FloatMax} : PromotionsAsyncCall(m)

SpecRung == InitRung /\ [][NextRung]_vars

\* ------------------------------------------------------ progress() alone
\* progress() applied to any search state, such as one that
\* load_method_state restored: the counters are drawn from 0..MaxCounter.
InitProgress ==
    /\ max_length \in MaxLengths
    /\ max_trials \in 1..MaxTrials
    /\ num_rungs \in 1..MaxRungs
    /\ divisor \in 1..MaxDivisor
    /\ max_concurrent_trials \in 0..MaxConcurrent
    /\ \E k \in 0..MaxCounter :
          /\ rungs = [_init_rungs(max_length, num_rungs, divisor) EXCEPT ![0].metrics =
                         [i \in 1..k |-> TrialMetric(i, 1, FALSE)]]
          /\ trial_rungs = [i \in 1..k |-> 0]
    /\ pending_trials \in 0..MaxCounter
    /\ completed_trials \in 0..MaxCounter
    /\ invalid_trials \in 0..MaxCounter
    /\ early_exit_trials = {}
    /\ closed_trials = {}
    /\ started = TRUE
    /\ to_create = {}
    /\ requested = [t \in TrialIds |-> 0]
    /\ to_close = {}
    /\ closed_delivered = {}
    /\ shutdown = FALSE
    /\ event = NoEvent
    /\ ops = <<>>
    /\ close_count = [t \in TrialIds |-> 0]
    /\ exit_kind = [t \in TrialIds |-> "none"]
    /\ exit_rung = [t \in TrialIds |-> 0]
    /\ progress_result = NoProgress

SpecProgress == InitProgress /\ [][progress]_vars

\* ------------------------------------------------- ladder construction alone
\* ASHASearchMethodState.__init__ for any max_length, num_rungs and divisor
\* within the bounds: the state before line 405 has no rungs, _init_rungs
\* builds them.
LadderMaxLength == 10
LadderMaxRungs == 4
LadderMaxDivisor == 3

InitLadder ==
    /\ max_length \in 1..LadderMaxLength
    /\ max_trials = 1
    /\ num_rungs \in 1..LadderMaxRungs
    /\ divisor \in 1..LadderMaxDivisor
    /\ max_concurrent_trials = 0
    /\ rungs = <<>>
    /\ trial_rungs = <<>>
    /\ pending_trials = 0
    /\ completed_trials = 0
    /\ invalid_trials = 0
    /\ early_exit_trials = {}
    /\ closed_trials = {}
    /\ started = FALSE
    /\ to_create = {}
    /\ requested = [t \in TrialIds |-> 0]
    /\ to_close = {}
    /\ closed_delivered = {}
    /\ shutdown = FALSE
    /\ event = NoEvent
    /\ ops = <<>>
    /\ close_count = [t \in TrialIds |-> 0]
    /\ exit_kind = [t \in TrialIds |-> "none"]
    /\ exit_rung = [t \in TrialIds |-> 0]
    /\ progress_result = NoProgress

InitRungsCall ==
    /\ event.name = "none"
    /\ rungs' = _init_rungs(max_length, num_rungs, divisor)
    /\ event' = [NoEvent EXCEPT !.name = "_init_rungs"]
    /\ UNCHANGED <<config, trial_rungs, pending_trials, completed_trials,
                   invalid_trials, early_exit_trials, closed_trials, runner,
                   ops, close_count, exit_kind, exit_rung, progress_result>>

SpecLadder == InitLadder /\ [][InitRungsCall]_vars

\* -------------------------------------------------- a ladder of three rungs
\* The search on a ladder of CascadeRungs rungs, tall enough for an early-exit
\* trial to be carried through a rung that is neither the first nor the last.
CascadeRungs == 3

InitCascade ==
    /\ max_length \in MaxLengths
    /\ max_trials \in 1..MaxTrials
    /\ num_rungs = CascadeRungs
    /\ divisor \in 1..MaxDivisor
    /\ max_concurrent_trials \in 0..MaxConcurrent
    /\ rungs = _init_rungs(max_length, num_rungs, divisor)
    /\ trial_rungs = <<>>
    /\ pending_trials = 0
    /\ completed_trials = 0
    /\ invalid_trials = 0
    /\ early_exit_trials = {}
    /\ closed_trials = {}
    /\ started = FALSE
    /\ to_create = {}
    /\ requested = [t \in TrialIds |-> 0]
    /\ to_close = {}
    /\ closed_delivered = {}
    /\ shutdown = FALSE
    /\ event = NoEvent
    /\ ops = <<>>
    /\ close_count = [t \in TrialIds |-> 0]
    /\ exit_kind = [t \in TrialIds |-> "none"]
    /\ exit_rung = [t \in TrialIds |-> 0]
    /\ progress_result = NoProgress

SpecCascade == InitCascade /\ [][Next]_vars

\* ================================================================ claims
Known == {"ERRORED", "USER_CANCELLED", "INVALID_HP"}
Quota(r) == Len(rungs[r].metrics) \div divisor
PromotedAt(r) == {k \in 1..Len(rungs[r].metrics) : rungs[r].metrics[k].promoted}
EntriesOf(r, t) == {k \in 1..Len(rungs[r].metrics) : rungs[r].metrics[k].request_id = t}
NumOps(o, kind) == Cardinality({k \in 1..Len(o) : o[k].op = kind})
Created == Cardinality(DOMAIN trial_rungs)
Quiescent ==
    /\ started
    /\ to_create = {}
    /\ to_close = {}
    /\ \A t \in TrialIds : requested[t] = 0

\* C1 as claimed: after n calls of promotions_async on a rung, exactly
\* floor(n / divisor) entries are promoted and they are the first
\* floor(n / divisor) entries of the sorted sequence.
C1_ExactQuota ==
    /\ Cardinality(PromotedAt(0)) = Quota(0)
    /\ PromotedAt(0) = 1..Quota(0)

\* C1 amended: after n calls of promotions_async on a rung, the first
\* floor(n / divisor) entries of the sorted sequence are all promoted, so at
\* least floor(n / divisor) entries are promoted.
C1_QuotaFilled ==
    /\ 1..Quota(0) \subseteq PromotedAt(0)
    /\ Cardinality(PromotedAt(0)) >= Quota(0)

\* three calls with divisor 2 left two entries promoted, one beyond the quota
C1_Witness ==
    /\ event.name = "promotions_async"
    /\ divisor = 2
    /\ Len(rungs[0].metrics) = 3
    /\ PromotedAt(0) = {1, 2}

\* C2: when the runner has delivered every event it owes (a TrialCreated per
\* Create, a result or early exit per ValidateAfter, a TrialClosed per closed
\* or exited trial), on_trial_closed has emitted Shutdown.
C2_ShutdownWhenQuiescent == Quiescent => shutdown

\* C3: no trial id is the subject of more than one emitted Close.
C3_CloseAtMostOnce == \A t \in TrialIds : close_count[t] <= 1

\* C4: trials created minus invalid trials never exceeds max_trials; Create is
\* emitted only by initial_operations (at most max_trials of them), by
\* _promote_async (one, and only below max_trials) and by an INVALID_HP exit
\* (exactly one).
C4_CreatedWithinMaxTrials ==
    /\ Created - invalid_trials <= max_trials
    /\ HasOp(ops, "Create") =>
          event.name \in {"initial_operations", "on_validation_completed",
                          "on_trial_exited_early"}
    /\ event.name = "initial_operations" => NumOps(ops, "Create") <= max_trials
    /\ (event.name = "on_trial_exited_early" /\ event.reason = "INVALID_HP") =>
          NumOps(ops, "Create") = 1
    /\ (event.name = "on_validation_completed"
        \/ (event.name = "on_trial_exited_early" /\ event.reason # "INVALID_HP")) =>
          /\ NumOps(ops, "Create") <= 1
          /\ NumOps(ops, "Create") = 1 => (Created - 1) - invalid_trials < max_trials

\* _promote_async created a trial after an INVALID_HP replacement, reaching
\* max_trials valid trials
C4_Witness ==
    /\ event.name = "on_validation_completed"
    /\ NumOps(ops, "Create") = 1
    /\ invalid_trials = 1
    /\ Created - invalid_trials = max_trials

\* C5: on_trial_closed increments completed_trials, adds the id to
\* closed_trials and returns [Shutdown] exactly when afterwards pending_trials
\* is 0 and completed_trials equals max_trials, otherwise the empty list; no
\* other handler emits Shutdown.
C5_TrialClosed ==
    [][/\ event'.name = "on_trial_closed" =>
            /\ completed_trials' = completed_trials + 1
            /\ closed_trials' = closed_trials \cup {event'.request_id}
            /\ (pending_trials' = 0 /\ completed_trials' = max_trials)
                  => ops' = <<Shutdown>>
            /\ ~(pending_trials' = 0 /\ completed_trials' = max_trials)
                  => ops' = <<>>
            /\ UNCHANGED <<rungs, trial_rungs, pending_trials, invalid_trials,
                           early_exit_trials>>
       /\ event'.name # "on_trial_closed" => ~HasOp(ops', "Shutdown")]_vars

\* on_trial_closed returned [Shutdown]
C5_Witness ==
    /\ event.name = "on_trial_closed"
    /\ ops = <<Shutdown>>
    /\ completed_trials = max_trials
    /\ pending_trials = 0

\* C6: an INVALID_HP exit of trial t at rung r removes t's entries from rungs
\* 0..r and nothing else, decrements only rung r's outstanding_trials,
\* increments invalid_trials, adds t to closed_trials and early_exit_trials,
\* leaves pending_trials and every other trial's rung index unchanged, and
\* returns [Close(t), Create(t2), ValidateAfter(t2, rungs[0].units_needed)]
\* with t2 fresh and registered at rung 0.
C6_InvalidHpFrame ==
    [][(event'.name = "on_trial_exited_early" /\ event'.reason = "INVALID_HP") =>
         LET t == event'.request_id
             r == trial_rungs[t]
             t2 == ops'[2].request_id
         IN /\ \A i \in DOMAIN rungs :
                  /\ rungs'[i].metrics =
                        IF i <= r
                        THEN SelectSeq(rungs[i].metrics, LAMBDA x : x.request_id # t)
                        ELSE rungs[i].metrics
                  /\ \A k \in 1..Len(rungs'[i].metrics) :
                        rungs'[i].metrics[k].request_id # t
                  /\ rungs'[i].outstanding_trials =
                        rungs[i].outstanding_trials - (IF i = r THEN 1 ELSE 0)
                  /\ rungs'[i].units_needed = rungs[i].units_needed
            /\ invalid_trials' = invalid_trials + 1
            /\ closed_trials' = closed_trials \cup {t}
            /\ early_exit_trials' = early_exit_trials \cup {t}
            /\ pending_trials' = pending_trials
            /\ completed_trials' = completed_trials
            /\ Len(ops') = 3
            /\ ops' = <<Close(t), Create(t2), ValidateAfter(t2, rungs[0].units_needed)>>
            /\ t2 \notin DOMAIN trial_rungs
            /\ DOMAIN trial_rungs' = DOMAIN trial_rungs \cup {t2}
            /\ trial_rungs'[t2] = 0
            /\ \A u \in DOMAIN trial_rungs : trial_rungs'[u] = trial_rungs[u]]_vars

\* an INVALID_HP exit of a trial at rung 1 has just been processed while
\* another trial's metric stays in rung 0
C6_Witness ==
    /\ event.name = "on_trial_exited_early"
    /\ event.reason = "INVALID_HP"
    /\ trial_rungs[event.request_id] = 1
    /\ Len(rungs[0].metrics) > 0

\* C7: once an ERRORED or USER_CANCELLED exit of t has been processed, no
\* operation list holds ValidateAfter(t, _) or Close(t), no validation request
\* for t is outstanding, and t has exactly one entry, with the sentinel metric,
\* in every rung from the one it exited at up to its current rung.
C7_SentinelTrial ==
    \A t \in TrialIds :
        exit_kind[t] = "sentinel" =>
            /\ OpCount(ops, "ValidateAfter", t) = 0
            /\ OpCount(ops, "Close", t) = 0
            /\ requested[t] = 0
            /\ \A r \in exit_rung[t]..trial_rungs[t] :
                  /\ Cardinality(EntriesOf(r, t)) = 1
                  /\ \A k \in EntriesOf(r, t) : rungs[r].metrics[k].metric = FloatMax

\* a trial that exited at rung 0 was later promoted (a quota slot fell to its
\* sentinel entry) and cascaded to rung 1
C7_Witness ==
    \E t \in TrialIds :
        /\ exit_kind[t] = "sentinel"
        /\ exit_rung[t] = 0
        /\ trial_rungs[t] = 1
        /\ divisor = 2
        /\ event.request_id # t

\* C8: an early exit with a reason outside ERRORED, USER_CANCELLED, INVALID_HP
\* fails: the search state is unchanged and nothing is emitted.
C8_UnknownReasonRejected ==
    [][(event'.name = "on_trial_exited_early" /\ event'.reason \notin Known) =>
          /\ UNCHANGED search_state
          /\ ops' = <<>>]_vars

\* a promotion request: a ValidateAfter for a trial not created in the same list
IsPromotionRequest(o, k) ==
    /\ o[k].op = "ValidateAfter"
    /\ OpCount(o, "Create", o[k].request_id) = 0

ExampleLadder == max_length = 8 /\ divisor = 2 /\ num_rungs = 2

\* C9 as claimed: with divisor 2, two rungs and max_length 8 the ladder is
\* [4, 8] and a promoted rung-0 trial receives ValidateAfter(t, 4).
C9_Ladder_4_8 ==
    ExampleLadder =>
        /\ rungs[0].units_needed = 4
        /\ rungs[1].units_needed = 8
        /\ \A k \in 1..Len(ops) : IsPromotionRequest(ops, k) => ops[k].length = 4

\* C9 amended: with divisor 2, two rungs and max_length 8 the ladder is
\* [4, 12] (the thresholds are cumulative) and a promoted rung-0 trial
\* receives ValidateAfter(t, 8), the difference of the two thresholds.
C9_Ladder_4_12 ==
    ExampleLadder =>
        /\ rungs[0].units_needed = 4
        /\ rungs[1].units_needed = 12
        /\ \A k \in 1..Len(ops) : IsPromotionRequest(ops, k) => ops[k].length = 8

\* a rung-0 trial of the example ladder has just been promoted
C9_Witness ==
    /\ ExampleLadder
    /\ \E k \in 1..Len(ops) :
          /\ IsPromotionRequest(ops, k)
          /\ trial_rungs[ops[k].request_id] = 1

\* C10: progress() fails exactly when max_concurrent_trials > 0 and
\* pending_trials > max_concurrent_trials; failing or not, it leaves the
\* search state and the runner's queues unchanged and emits nothing.
C10_ProgressFailsOverCap ==
    [][event'.name = "progress" =>
          /\ progress_result'.status \in {"error", "ok"}
          /\ progress_result'.status = "error" <=>
                (max_concurrent_trials > 0 /\ pending_trials > max_concurrent_trials)
          /\ UNCHANGED <<config, search_state, runner>>
          /\ ops' = <<>>]_vars

\* progress() failed
C10_Witness ==
    /\ event.name = "progress"
    /\ progress_result.status = "error"
    /\ pending_trials > max_concurrent_trials

\* C11: wherever progress() does not fail its value lies in [0, 1]: rung 0
\* holds between 0 and max_trials metrics and completed_trials -
\* invalid_trials is at most max_trials; the value is 1 when rung 0 holds
\* max_trials metrics and completed_trials - invalid_trials = max_trials.
C11_ProgressInUnitInterval ==
    /\ 0 <= Len(rungs[0].metrics)
    /\ Len(rungs[0].metrics) <= max_trials
    /\ completed_trials - invalid_trials <= max_trials
    /\ ProgressValue.status = "ok" =>
          /\ 0 <= ProgressValue.num
          /\ ProgressValue.num <= ProgressValue.den
          /\ (/\ Len(rungs[0].metrics) = max_trials
              /\ completed_trials - invalid_trials = max_trials)
                => ProgressValue.num = ProgressValue.den
    /\ (event.name = "progress" /\ progress_result.status = "ok") =>
          /\ 0 <= progress_result.num
          /\ progress_result.num <= progress_result.den

\* progress() returned 1 after an INVALID_HP exit: rung 0 is full and every
\* valid trial has been closed
C11_Witness ==
    /\ event.name = "progress"
    /\ progress_result.status = "ok"
    /\ progress_result.num = progress_result.den
    /\ Len(rungs[0].metrics) = max_trials
    /\ invalid_trials > 0

\* the initial concurrency of spec section 4.6, from the configuration
InitialConcurrency ==
    IF max_concurrent_trials > 0
    THEN (IF max_concurrent_trials < max_trials THEN max_concurrent_trials
          ELSE max_trials)
    ELSE IF num_rungs = 1 \/ divisor = 1 \/ max_trials = 1 THEN 1
         ELSE IF Pow(divisor, num_rungs - 1) < max_trials
              THEN Pow(divisor, num_rungs - 1)
              ELSE max_trials

\* C12: initial_operations returns exactly N (Create, ValidateAfter) pairs in
\* that order, every ValidateAfter carrying the id of the Create before it and
\* the length rungs[0].units_needed; the N ids are distinct and registered at
\* rung 0 and pending_trials has grown by N, where N is
\* min(max_concurrent_trials, max_trials) if max_concurrent_trials > 0 and
\* max(1, min(divisor^(num_rungs-1), max_trials)) otherwise.
C12_InitialOperations ==
    [][event'.name = "initial_operations" =>
          LET N == InitialConcurrency
          IN /\ Len(ops') = 2 * N
             /\ \A k \in 1..N :
                   /\ ops'[2 * k - 1].op = "Create"
                   /\ ops'[2 * k] = ValidateAfter(ops'[2 * k - 1].request_id,
                                                  rungs[0].units_needed)
             /\ \A j, k \in 1..N :
                   j # k => ops'[2 * j - 1].request_id # ops'[2 * k - 1].request_id
             /\ DOMAIN trial_rungs' =
                   DOMAIN trial_rungs \cup {ops'[2 * k - 1].request_id : k \in 1..N}
             /\ \A k \in 1..N : /\ ops'[2 * k - 1].request_id \notin DOMAIN trial_rungs
                                /\ trial_rungs'[ops'[2 * k - 1].request_id] = 0
             /\ pending_trials' = pending_trials + N
             /\ UNCHANGED <<rungs, completed_trials, invalid_trials,
                            early_exit_trials, closed_trials>>]_vars

\* initial_operations returned two pairs: no concurrency limit is configured,
\* divisor^(num_rungs-1) = 2 and max_trials = 2
C12_Witness ==
    /\ event.name = "initial_operations"
    /\ max_concurrent_trials = 0
    /\ Len(ops) = 4
    /\ pending_trials = 2

SortedSeq(ms) == \A k \in 1..(Len(ms) - 1) : ms[k].metric <= ms[k + 1].metric

\* new is old with one entry put in at position i
InsertedAt(old, new, i) ==
    /\ Len(new) = Len(old) + 1
    /\ \A k \in 1..(i - 1) : /\ new[k].request_id = old[k].request_id
                             /\ new[k].metric = old[k].metric
    /\ \A k \in (i + 1)..Len(new) : /\ new[k].request_id = old[k - 1].request_id
                                    /\ new[k].metric = old[k - 1].metric

\* C13 as claimed: in every reachable state the metrics of every rung, the
\* final rung included, are sorted ascending by metric value.
C13_AllRungsSorted == \A r \in DOMAIN rungs : SortedSeq(rungs[r].metrics)

\* C13 amended: after every step the metrics of every rung below the final
\* one are sorted ascending by metric value (INVALID_HP purges included), and
\* a rung that gained an entry holds it after every older entry of equal or
\* smaller value and before every larger one; the final rung gains its entries
\* at the end, in arrival order.
C13_NonFinalRungsSorted ==
    [][\A r \in DOMAIN rungs :
          /\ r < num_rungs - 1 => SortedSeq(rungs'[r].metrics)
          /\ Len(rungs'[r].metrics) > Len(rungs[r].metrics) =>
                \E i \in 1..Len(rungs'[r].metrics) :
                    /\ InsertedAt(rungs[r].metrics, rungs'[r].metrics, i)
                    /\ r = num_rungs - 1 => i = Len(rungs'[r].metrics)
                    /\ r < num_rungs - 1 =>
                          /\ \A k \in 1..(i - 1) :
                                rungs'[r].metrics[k].metric <= rungs'[r].metrics[i].metric
                          /\ \A k \in (i + 1)..Len(rungs'[r].metrics) :
                                rungs'[r].metrics[k].metric > rungs'[r].metrics[i].metric]_vars

\* a result has just been inserted into rung 0 behind an older entry of the
\* same value, and the final rung above is out of order
C13_Witness ==
    /\ num_rungs = 2
    /\ event.name = "on_validation_completed"
    /\ \E k \in 1..(Len(rungs[0].metrics) - 1) :
          /\ rungs[0].metrics[k].metric = rungs[0].metrics[k + 1].metric
          /\ rungs[0].metrics[k + 1].request_id = event.request_id
    /\ ~SortedSeq(rungs[1].metrics)

\* the trials training toward rung r: created (rung 0) or promoted (higher
\* rungs) and registered at r, with no result recorded at r and no INVALID_HP
\* exit
TrainingToward(r) ==
    {t \in DOMAIN trial_rungs :
        /\ trial_rungs[t] = r
        /\ t \notin to_create
        /\ EntriesOf(r, t) = {}
        /\ exit_kind[t] # "invalid"}

\* C14: every rung's outstanding_trials is never negative and counts exactly
\* the trials training toward that rung: it was incremented once for each
\* (TrialCreated for rung 0, promotion for a higher rung) and decremented once
\* when the trial's result, sentinel result or INVALID_HP exit at that rung
\* arrived.
C14_OutstandingTrials ==
    \A r \in DOMAIN rungs :
        /\ rungs[r].outstanding_trials >= 0
        /\ rungs[r].outstanding_trials = Cardinality(TrainingToward(r))

\* a trial promoted to rung 1 left it by an INVALID_HP exit, which took rung
\* 1's outstanding_trials back to 0
C14_Witness ==
    /\ event.name = "on_trial_exited_early"
    /\ event.reason = "INVALID_HP"
    /\ exit_rung[event.request_id] = 1
    /\ rungs[1].outstanding_trials = 0
    /\ Len(rungs[0].metrics) > 0

\* a promotion/decision call: a result, or the sentinel result of an ERRORED
\* or USER_CANCELLED exit
IsDecisionCall(e) ==
    \/ e.name = "on_validation_completed"
    \/ e.name = "on_trial_exited_early" /\ e.reason # "INVALID_HP"

\* the rungs the sweep scans: those below the first rung with trials outstanding
ScannedRungs(rs) ==
    {r \in DOMAIN rs : \A q \in 0..r : rs[q].outstanding_trials <= 0}

\* the ids the sweep closes in the rungs rs: entries of scanned rungs that are
\* not promoted, not closed and not exited early
SweepIds(rs, closed, exited) ==
    {id \in TrialIds :
        \E r \in ScannedRungs(rs) : \E k \in 1..Len(rs[r].metrics) :
            /\ rs[r].metrics[k].request_id = id
            /\ ~rs[r].metrics[k].promoted
            /\ id \notin closed
            /\ id \notin exited}

C16_FinalRung ==
    [][IsDecisionCall(event') =>
          LET t == event'.request_id
              F == num_rungs - 1
              m == IF event'.name = "on_validation_completed"
                   THEN event'.metric ELSE FloatMax
          IN /\ trial_rungs[t] = F =>
                   /\ event'.calls = <<F>>
                   /\ \A u \in DOMAIN trial_rungs : trial_rungs'[u] = trial_rungs[u]
                   /\ \A r \in 0..(F - 1) : rungs'[r].metrics = rungs[r].metrics
                   /\ rungs'[F].metrics =
                         Append(rungs[F].metrics, TrialMetric(t, m, FALSE))
                   /\ OpCount(ops', "ValidateAfter", t) = 0
                   /\ OpCount(ops', "Close", t) =
                         (IF t \in early_exit_trials' THEN 0 ELSE 1)
                   /\ t \notin early_exit_trials' =>
                         (ops'[1] = Close(t) /\ t \in closed_trials')
             /\ \A p \in DOMAIN trial_rungs :
                   (trial_rungs[p] # F /\ trial_rungs'[p] = F
                    /\ p \in early_exit_trials') =>
                       /\ rungs'[F].metrics =
                             Append(rungs[F].metrics, TrialMetric(p, FloatMax, FALSE))
                       /\ OpCount(ops', "ValidateAfter", p) = 0
                       /\ OpCount(ops', "Close", p) = 0
             /\ (num_rungs = 1 /\ event'.name = "on_validation_completed") =>
                   (Len(ops') >= 1 /\ ops'[1] = Close(t))]_vars

\* an ERRORED or USER_CANCELLED exit of a trial training toward the final rung
\* of a two-rung ladder has been processed: its sentinel is the last entry of
\* the final rung and no Close was emitted for it
C16_Witness ==
    /\ event.name = "on_trial_exited_early"
    /\ event.reason # "INVALID_HP"
    /\ num_rungs = 2
    /\ exit_rung[event.request_id] = 1
    /\ Len(rungs[1].metrics) >= 1
    /\ rungs[1].metrics[Len(rungs[1].metrics)] =
          TrialMetric(event.request_id, FloatMax, FALSE)
    /\ OpCount(ops, "Close", event.request_id) = 0

\* C17: for every max_length, num_rungs and divisor >= 1 the ladder that
\* _init_rungs builds has units_needed[0] >= 1 and strictly increasing
\* thresholds, units_needed[i] being the running sum of
\* max(floor(max_length / divisor^(num_rungs-j-1)), 1) over j <= i; the length
\* requested for a promotion out of rung i is
\* units_needed[i+1] - units_needed[i], a positive integer.
C17_Ladder ==
    event.name = "_init_rungs" =>
        /\ DOMAIN rungs = 0..(num_rungs - 1)
        /\ rungs[0].units_needed >= 1
        /\ rungs[0].units_needed =
              Max(max_length \div Pow(divisor, num_rungs - 1), 1)
        /\ \A i \in 0..(num_rungs - 2) :
              /\ rungs[i + 1].units_needed > rungs[i].units_needed
              /\ rungs[i + 1].units_needed - rungs[i].units_needed =
                    Max(max_length \div Pow(divisor, num_rungs - i - 2), 1)
              /\ PromotionUnits(rungs, i) =
                    rungs[i + 1].units_needed - rungs[i].units_needed
              /\ PromotionUnits(rungs, i) > 0

\* max_length 10, divisor 3, four rungs: the lowest increment floor(10 / 27)
\* is raised to 1 and the ladder is 1, 2, 5, 15
C17_Witness ==
    /\ event.name = "_init_rungs"
    /\ max_length = 10 /\ divisor = 3 /\ num_rungs = 4
    /\ rungs[0].units_needed = 1
    /\ rungs[1].units_needed = 2
    /\ rungs[2].units_needed = 5
    /\ rungs[3].units_needed = 15

\* C18: the cascade of promoted early-exit trials terminates: the nested
\* invocations of _promote_async that one event causes run on rung indices
\* rising by exactly one from the event's trial's rung, so there are at most
\* num_rungs of them and the last is at the final rung at the latest; each
\* nested invocation is on an early-exit trial now registered at that rung.
C18_CascadeBounded ==
    [][IsDecisionCall(event') =>
          LET calls == event'.calls
          IN /\ Len(calls) >= 1
             /\ Len(calls) <= num_rungs
             /\ calls[1] = trial_rungs[event'.request_id]
             /\ \A k \in 1..(Len(calls) - 1) : calls[k + 1] = calls[k] + 1
             /\ calls[Len(calls)] <= num_rungs - 1
             /\ \A k \in 2..Len(calls) :
                   \E p \in early_exit_trials' :
                       /\ trial_rungs[p] <= calls[k - 1]
                       /\ trial_rungs'[p] >= calls[k]]_vars

\* one ERRORED or USER_CANCELLED exit at rung 0 was resolved by three nested
\* invocations, at rungs 0, 1 and 2
C18_Witness ==
    /\ event.name = "on_trial_exited_early"
    /\ event.calls = <<0, 1, 2>>
    /\ exit_rung[event.request_id] = 0
    /\ trial_rungs[event.request_id] = 2

\* C19: in every reachable state 0 <= pending_trials <= N, N being the
\* initial concurrency; hence with max_concurrent_trials > 0 progress() never
\* fails.
C19_PendingWithinConcurrency ==
    /\ 0 <= pending_trials
    /\ pending_trials <= InitialConcurrency
    /\ max_concurrent_trials > 0 =>
          /\ pending_trials <= max_concurrent_trials
          /\ ProgressValue.status = "ok"
          /\ event.name = "progress" => progress_result.status = "ok"

\* with a concurrency limit configured, progress() succeeded while N requests
\* were pending, one of them a promotion to rung 1
C19_Witness ==
    /\ max_concurrent_trials > 0
    /\ event.name = "progress"
    /\ progress_result.status = "ok"
    /\ pending_trials = InitialConcurrency
    /\ \E t \in DOMAIN trial_rungs : trial_rungs[t] = 1 /\ requested[t] = 1

\* C20: a promotion/decision call, cascade included, returns at most one
\* ValidateAfter: either for one promoted trial that has not exited early
\* (moved up one rung, with the difference of the two thresholds as length) or
\* right after the one Create of a fresh rung-0 trial, never both; it returns
\* exactly one whenever trials created minus invalid_trials was below
\* max_trials before the call.
C20_OneRequestPerCall ==
    [][IsDecisionCall(event') =>
          LET nVA == NumOps(ops', "ValidateAfter")
              nC == NumOps(ops', "Create")
          IN /\ nVA <= 1
             /\ nC <= 1
             /\ nC = 1 =>
                   \E k \in 1..(Len(ops') - 1) :
                       /\ ops'[k].op = "Create"
                       /\ ops'[k + 1] = ValidateAfter(ops'[k].request_id,
                                                      rungs[0].units_needed)
                       /\ ops'[k].request_id \notin DOMAIN trial_rungs
                       /\ trial_rungs'[ops'[k].request_id] = 0
             /\ \A k \in 1..Len(ops') :
                   IsPromotionRequest(ops', k) =>
                       LET p == ops'[k].request_id
                       IN /\ nC = 0
                          /\ p \in DOMAIN trial_rungs
                          /\ p \notin early_exit_trials'
                          /\ trial_rungs'[p] = trial_rungs[p] + 1
                          /\ ops'[k].length = rungs[trial_rungs[p] + 1].units_needed
                                              - rungs[trial_rungs[p]].units_needed
             /\ Created - invalid_trials < max_trials => nVA = 1]_vars

\* an exit at rung 0 cascaded to the final rung, promoted nothing further and
\* was answered with one fresh trial
C20_Witness ==
    /\ event.name = "on_trial_exited_early"
    /\ Len(event.calls) = 2
    /\ NumOps(ops, "Create") = 1
    /\ NumOps(ops, "ValidateAfter") = 1

\* C21: once Close(t) has been emitted for a trial t, no later operation list
\* holds ValidateAfter(t, _) and t's rung index never changes again.
C21_NothingAfterClose ==
    [][\A t \in DOMAIN trial_rungs :
          close_count[t] >= 1 =>
              /\ OpCount(ops', "ValidateAfter", t) = 0
              /\ trial_rungs'[t] = trial_rungs[t]]_vars

\* C22: Shutdown is emitted at most once, and only in a state where every
\* trial ever created (every key of trial_rungs) has had its TrialClosed
\* processed and no validation request is pending.
C22_ShutdownAfterAllClosed ==
    /\ NumOps(ops, "Shutdown") <= 1
    /\ HasOp(ops, "Shutdown") =>
          /\ shutdown
          /\ pending_trials = 0
          /\ \A t \in TrialIds : requested[t] = 0
          /\ DOMAIN trial_rungs \subseteq closed_delivered

====
